---- MODULE Spec2Model ----
(***************************************************************************)
(* Model of simulacao_espelhos.py: the image generator calculate_images,   *)
(* the ray-path helper calculate_ray_paths and the widget callbacks that   *)
(* mutate the globals theta_deg, obj_angle_deg, obj_radius and show_rays.  *)
(*                                                                         *)
(* Numbers.  Python floats are held as fixed point numbers with two        *)
(* decimals: theta_deg, obj_angle_deg (degrees) and obj_radius are stored  *)
(* multiplied by Unit.  Angles are kept in degrees instead of radians, so  *)
(* np.radians is the identity of the representation, 2*np.pi is 360*Unit   *)
(* and np.pi is 180*Unit.  np.cos / np.sin are the table CosTable of the   *)
(* cosines of the whole degrees, in millionths; a Cartesian coordinate     *)
(* (radius * cosine) is therefore an integer number of 1e-8 units and      *)
(* round(v, 3) is the nearest multiple of RoundUnit, expressed in          *)
(* thousandths.  All inputs of the model are whole degrees.                *)
(***************************************************************************)
EXTENDS Integers, Sequences, FiniteSets, TLC

VARIABLES theta_deg, obj_angle_deg, obj_radius, show_rays,
          check_status,
          images, image_angles, num_images, formula_str, ray_lines,
          printed, event

vars == <<theta_deg, obj_angle_deg, obj_radius, show_rays, check_status,
          images, image_angles, num_images, formula_str, ray_lines,
          printed, event>>

params == <<theta_deg, obj_angle_deg, obj_radius, show_rays>>

-----------------------------------------------------------------------------
(* Bounds of the model *)

\* calculate_images is applied to theta = 1 and ThetaStep * k degrees, k in 0..MaxThetaK
MaxThetaK == 54
\* calculate_images is applied to phi = PhiStep * k degrees, k in -MaxPhiK..MaxPhiK
MaxPhiK == 26

-----------------------------------------------------------------------------
(* Numeric representation *)

Unit == 100

RoundUnit == 100000

CosTable ==
  <<
      1000000, 999848, 999391, 998630, 997564, 996195, 994522, 992546, 990268, 987688,
      984808, 981627, 978148, 974370, 970296, 965926, 961262, 956305, 951057, 945519,
      939693, 933580, 927184, 920505, 913545, 906308, 898794, 891007, 882948, 874620,
      866025, 857167, 848048, 838671, 829038, 819152, 809017, 798636, 788011, 777146,
      766044, 754710, 743145, 731354, 719340, 707107, 694658, 681998, 669131, 656059,
      642788, 629320, 615661, 601815, 587785, 573576, 559193, 544639, 529919, 515038,
      500000, 484810, 469472, 453990, 438371, 422618, 406737, 390731, 374607, 358368,
      342020, 325568, 309017, 292372, 275637, 258819, 241922, 224951, 207912, 190809,
      173648, 156434, 139173, 121869, 104528, 87156, 69756, 52336, 34899, 17452,
      0, -17452, -34899, -52336, -69756, -87156, -104528, -121869, -139173, -156434,
      -173648, -190809, -207912, -224951, -241922, -258819, -275637, -292372, -309017, -325568,
      -342020, -358368, -374607, -390731, -406737, -422618, -438371, -453990, -469472, -484810,
      -500000, -515038, -529919, -544639, -559193, -573576, -587785, -601815, -615661, -629320,
      -642788, -656059, -669131, -681998, -694658, -707107, -719340, -731354, -743145, -754710,
      -766044, -777146, -788011, -798636, -809017, -819152, -829038, -838671, -848048, -857167,
      -866025, -874620, -882948, -891007, -898794, -906308, -913545, -920505, -927184, -933580,
      -939693, -945519, -951057, -956305, -961262, -965926, -970296, -974370, -978148, -981627,
      -984808, -987688, -990268, -992546, -994522, -996195, -997564, -998630, -999391, -999848,
      -1000000, -999848, -999391, -998630, -997564, -996195, -994522, -992546, -990268, -987688,
      -984808, -981627, -978148, -974370, -970296, -965926, -961262, -956305, -951057, -945519,
      -939693, -933580, -927184, -920505, -913545, -906308, -898794, -891007, -882948, -874620,
      -866025, -857167, -848048, -838671, -829038, -819152, -809017, -798636, -788011, -777146,
      -766044, -754710, -743145, -731354, -719340, -707107, -694658, -681998, -669131, -656059,
      -642788, -629320, -615661, -601815, -587785, -573576, -559193, -544639, -529919, -515038,
      -500000, -484810, -469472, -453990, -438371, -422618, -406737, -390731, -374607, -358368,
      -342020, -325568, -309017, -292372, -275637, -258819, -241922, -224951, -207912, -190809,
      -173648, -156434, -139173, -121869, -104528, -87156, -69756, -52336, -34899, -17452,
      0, 17452, 34899, 52336, 69756, 87156, 104528, 121869, 139173, 156434,
      173648, 190809, 207912, 224951, 241922, 258819, 275637, 292372, 309017, 325568,
      342020, 358368, 374607, 390731, 406737, 422618, 438371, 453990, 469472, 484810,
      500000, 515038, 529919, 544639, 559193, 573576, 587785, 601815, 615661, 629320,
      642788, 656059, 669131, 681998, 694658, 707107, 719340, 731354, 743145, 754710,
      766044, 777146, 788011, 798636, 809017, 819152, 829038, 838671, 848048, 857167,
      866025, 874620, 882948, 891007, 898794, 906308, 913545, 920505, 927184, 933580,
      939693, 945519, 951057, 956305, 961262, 965926, 970296, 974370, 978148, 981627,
      984808, 987688, 990268, 992546, 994522, 996195, 997564, 998630, 999391, 999848 >>

cos(a) == CosTable[((a % (360 * Unit)) \div Unit) + 1]

sin(a) == CosTable[(((a - 90 * Unit) % (360 * Unit)) \div Unit) + 1]

\* round(v, 3): nearest thousandth, an exact tie going to the even one
round3(v) ==
  LET q == v \div RoundUnit
      r == v % RoundUnit
  IN  IF 2 * r > RoundUnit THEN q + 1
      ELSE IF 2 * r < RoundUnit THEN q
      ELSE IF q % 2 = 0 THEN q ELSE q + 1

Min(a, b) == IF a < b THEN a ELSE b

-----------------------------------------------------------------------------
(* calculate_images *)

\* (obj_radius * np.cos(angle), obj_radius * np.sin(angle))
Position(radius, angle) == <<radius * cos(angle), radius * sin(angle)>>

\* pos_key = (round(img_x, 3), round(img_y, 3))
PosKey(pos) == <<round3(pos[1]), round3(pos[2])>>

\* faulty variant of N_theory: the "- 1" of the exact branch is missing
N_theory_noMinusOne(n) == (360 * Unit) \div n

\* N_theory of the two branches of "if 360 % n == 0"
N_theory(n) ==
  IF (360 * Unit) % n = 0 THEN ((360 * Unit) \div n) - 1
  ELSE (360 * Unit) \div n

\* the f-string: its template and the two interpolated values
formula(n) ==
  IF (360 * Unit) % n = 0
  THEN [template |-> "N = 360/{n} - 1 = {N_theory}", n |-> n, N |-> N_theory(n)]
  ELSE [template |-> "N ~ 360/{n} ~ {N_theory}", n |-> n, N |-> N_theory(n)]

mirror1_angle == 0

mirror2_angle(theta) == theta

MaxSequenceLength == 5

\* (i >> j) & 1
Bit(i, j) == (i \div (2 ^ j)) % 2

\* one reflection: current_angle = 2 * mirror_angle - current_angle
Reflect(mirror, current_angle, theta) ==
  IF mirror = 0 THEN 2 * mirror1_angle - current_angle
  ELSE 2 * mirror2_angle(theta) - current_angle

\* the inner loop "for mirror in seq", seq[j] = Bit(i, j), j = 0..len-1
RECURSIVE ApplySeq(_, _, _, _, _)
ApplySeq(current_angle, i, j, len, theta) ==
  IF j = len THEN current_angle
  ELSE ApplySeq(Reflect(Bit(i, j), current_angle, theta), i, j + 1, len, theta)

\* current_angle % (2*pi), minus 2*pi when above pi (an angle of exactly 180
\* degrees stays 180; the floating point value may fall on either side of pi,
\* giving 180 or -180, which is the same position)
Normalize(current_angle) ==
  LET m == current_angle % (360 * Unit)
  IN  IF m > 180 * Unit THEN m - 360 * Unit ELSE m

\* what the body of "for seq in sequences" computes for the sequence number i
\* of length len: current_angle (normalized), (img_x, img_y) and pos_key
Candidate(len, i, theta, radius, obj_angle) ==
  LET current_angle == Normalize(ApplySeq(obj_angle, i, 0, len, theta))
      img == Position(radius, current_angle)
  IN  [angle |-> current_angle, img |-> img, pos_key |-> PosKey(img)]

\* the candidates in scan order: sequence_length = 1..L, and in each length
\* the sequences i = 0..2^sequence_length - 1
RECURSIVE CandidatesUpTo(_, _, _, _)
CandidatesUpTo(L, theta, radius, obj_angle) ==
  IF L = 0 THEN <<>>
  ELSE CandidatesUpTo(L - 1, theta, radius, obj_angle)
       \o [k \in 1..(2 ^ L) |-> Candidate(L, k - 1, theta, radius, obj_angle)]

Candidates(theta, radius, obj_angle) ==
  CandidatesUpTo(MaxSequenceLength, theta, radius, obj_angle)

\* faulty variant of InitialPositions: the object's key is not added
InitialPositions_empty(obj_pos) == {}

\* generated_positions.add((round(obj_x, 3), round(obj_y, 3)))
InitialPositions(obj_pos) == {PosKey(obj_pos)}

\* generated_positions when sequence k is reached: the object's key and the
\* key of every earlier sequence (after its iteration a key is in the set,
\* either added then or found there)
GeneratedBefore(c, k, obj_pos) ==
  InitialPositions(obj_pos) \cup {c[j].pos_key : j \in 1..(k - 1)}

\* faulty variant of IsNew: only the x coordinates of the keys are compared
IsNew_xOnly(pos_key, generated_positions) ==
  pos_key[1] \notin {g[1] : g \in generated_positions}

\* if pos_key not in generated_positions
IsNew(pos_key, generated_positions) == pos_key \notin generated_positions

\* the sequences whose candidate is appended, then images and image_angles
\* in discovery order
Discovered(c, obj_pos) ==
  LET Appends(k) == IsNew(c[k].pos_key, GeneratedBefore(c, k, obj_pos))
      appended == SelectSeq([k \in 1..Len(c) |-> k], Appends)
  IN  [images |-> [i \in 1..Len(appended) |-> c[appended[i]].img],
       image_angles |-> [i \in 1..Len(appended) |-> c[appended[i]].angle]]

\* the two nested loops over sequence_length and seq
Enumerate(theta, radius, obj_angle) ==
  Discovered(Candidates(theta, radius, obj_angle), Position(radius, obj_angle))

\* faulty variant of Truncate: the list is not cut
Truncate_none(imgs, N) == imgs

\* if len(images) > N_theory: images = images[:N_theory]
Truncate(imgs, N) == IF Len(imgs) > N THEN SubSeq(imgs, 1, N) ELSE imgs

\* faulty variant of ParallelResult: the reflection in mirror 1 is returned
ParallelResult_enumerated(radius, obj_angle) ==
  [images |-> <<Position(radius, -obj_angle)>>, image_angles |-> <<-obj_angle>>,
   count |-> 1,
   formula |-> [template |-> "Espelhos paralelos: infinitas imagens", n |-> 0, N |-> 0]]

\* return [], [], 0, "Espelhos paralelos: infinitas imagens"
ParallelResult(radius, obj_angle) ==
  [images |-> <<>>, image_angles |-> <<>>, count |-> 0,
   formula |-> [template |-> "Espelhos paralelos: infinitas imagens", n |-> 0, N |-> 0]]

calculate_images(theta, radius, obj_angle) ==
  LET n == theta
  IN  IF n = 0 THEN ParallelResult(radius, obj_angle)
      ELSE LET e == Enumerate(theta, radius, obj_angle)
               imgs == Truncate(e.images, N_theory(n))
           IN  [images |-> imgs, image_angles |-> e.image_angles,
                count |-> Len(imgs), formula |-> formula(n)]

-----------------------------------------------------------------------------
(* calculate_ray_paths and update_simulation *)

\* faulty variant of calculate_ray_paths: show_rays is not consulted
calculate_ray_paths_ignoreFlag(show, obj_x, obj_y, imgs, angles) ==
  [i \in 1..Min(3, Len(imgs)) |-> <<<<obj_x, obj_y>>, imgs[i]>>]

\* show is the global show_rays read by the function
calculate_ray_paths(show, obj_x, obj_y, imgs, angles) ==
  IF ~show \/ Len(imgs) = 0 THEN <<>>
  ELSE [i \in 1..Min(3, Len(imgs)) |-> <<<<obj_x, obj_y>>, imgs[i]>>]

\* the dashed line and the arrow appended to ray_lines for each path
RayLines(ray_paths) ==
  [j \in 1..(2 * Len(ray_paths)) |->
     IF j % 2 = 1 THEN [kind |-> "line", path |-> ray_paths[(j + 1) \div 2]]
     ELSE [kind |-> "arrow", path |-> ray_paths[j \div 2]]]

\* what update_simulation draws for the globals it reads
Drawing(theta, obj_angle, radius, show) ==
  LET obj == Position(radius, obj_angle)
  IN  {[images |-> res.images, image_angles |-> res.image_angles,
        num_images |-> res.count, formula_str |-> res.formula,
        ray_lines |-> IF show /\ Len(res.images) > 0
                      THEN RayLines(calculate_ray_paths(show, obj[1], obj[2],
                                                        res.images, res.image_angles))
                      ELSE <<>>] :
         res \in {calculate_images(theta, radius, obj_angle)}}

-----------------------------------------------------------------------------
(* The callbacks.  A callback is a function of the record g of the globals  *)
(* (and of the check box status); g.printed collects what it prints and     *)
(* g.drawn holds the globals read by its last call of update_simulation     *)
(* (empty when it made none): each call redraws everything from scratch, so *)
(* the figure after the callback is the Drawing of g.drawn.                 *)

update_simulation(g) ==
  [g EXCEPT !.drawn = <<<<g.theta_deg, g.obj_angle_deg, g.obj_radius, g.show_rays>>>>]

print(g, msg) == [g EXCEPT !.printed = Append(@, msg)]

update_theta(g, val) == update_simulation([g EXCEPT !.theta_deg = val])

update_obj_angle(g, val) == update_simulation([g EXCEPT !.obj_angle_deg = val])

update_obj_radius(g, val) == update_simulation([g EXCEPT !.obj_radius = val])

toggle_rays(g) == update_simulation([g EXCEPT !.show_rays = ~g.show_rays])

\* Slider.set_val stores the value, without clamping it to the slider's range,
\* and calls the on_changed callback
slider_theta_set_val(g, val) == update_theta(g, val)

slider_obj_angle_set_val(g, val) == update_obj_angle(g, val)

slider_obj_radius_set_val(g, val) == update_obj_radius(g, val)

\* CheckButtons.set_active(0) toggles the box and calls the on_clicked callback
check_set_active(g) == toggle_rays([g EXCEPT !.check_status = ~g.check_status])

\* float(text) for a text of an optional sign, digits and at most one point;
\* the value is in hundredths (texts of the model have at most two decimals)
Digit(c) ==
  CASE c = "0" -> 0 [] c = "1" -> 1 [] c = "2" -> 2 [] c = "3" -> 3
    [] c = "4" -> 4 [] c = "5" -> 5 [] c = "6" -> 6 [] c = "7" -> 7
    [] c = "8" -> 8 [] c = "9" -> 9 [] OTHER -> -1

RECURSIVE DigitsValue(_)
DigitsValue(s) ==
  IF s = <<>> THEN 0
  ELSE 10 * DigitsValue(SubSeq(s, 1, Len(s) - 1)) + Digit(s[Len(s)])

float(text) ==
  LET signed == text # <<>> /\ text[1] \in {"-", "+"}
      body == IF signed THEN SubSeq(text, 2, Len(text)) ELSE text
      points == {i \in 1..Len(body) : body[i] = "."}
      p == IF points = {} THEN Len(body) + 1 ELSE CHOOSE i \in points : TRUE
      int_part == SubSeq(body, 1, p - 1)
      frac_part == SubSeq(body, p + 1, Len(body))
      ok == /\ Cardinality(points) <= 1
            /\ Len(int_part) + Len(frac_part) > 0
            /\ \A i \in 1..Len(body) : i = p \/ Digit(body[i]) >= 0
      frac == SubSeq(frac_part \o <<"0", "0">>, 1, 2)
      magnitude == Unit * DigitsValue(int_part) + DigitsValue(frac)
  IN  IF ok THEN [ok |-> TRUE, val |-> IF signed /\ text[1] = "-" THEN -magnitude ELSE magnitude]
      ELSE [ok |-> FALSE, val |-> 0]

\* faulty variant of AngleInRange: the lower limit is not tested
AngleInRange_noLower(angle) == angle <= 270 * Unit

\* if 1 <= angle <= 270
AngleInRange(angle) == 1 * Unit <= angle /\ angle <= 270 * Unit

submit_angle(g, text) ==
  LET angle == float(text)
  IN  IF ~angle.ok THEN print(g, "Digite um numero valido")
      ELSE IF AngleInRange(angle.val) THEN slider_theta_set_val(g, angle.val)
      ELSE print(g, "Angulo deve estar entre 1 e 270")

submit_obj_angle(g, text) ==
  LET angle == float(text)
  IN  IF ~angle.ok THEN print(g, "Digite um numero valido")
      ELSE slider_obj_angle_set_val(g, angle.val)

submit_obj_radius(g, text) ==
  LET radius == float(text)
  IN  IF ~radius.ok THEN print(g, "Digite um numero valido")
      ELSE IF radius.val > 0 THEN slider_obj_radius_set_val(g, radius.val)
      ELSE g

\* TextBox.set_val(text): when the text differs from the box's text it calls the
\* on_submit callback with it, otherwise it returns at once.  The three calls
\* of reset submit the value the slider was just set to, which the callback
\* sets again, so both cases end in the same globals; the submit is modelled.
text_theta_set_val(g, text) == submit_angle(g, text)

text_obj_angle_set_val(g, text) == submit_obj_angle(g, text)

text_obj_radius_set_val(g, text) == submit_obj_radius(g, text)

reset(g) ==
  LET g1 == slider_theta_set_val(g, 60 * Unit)
      g2 == slider_obj_angle_set_val(g1, 30 * Unit)
      g3 == slider_obj_radius_set_val(g2, 3 * Unit)
      g4 == text_theta_set_val(g3, <<"6", "0">>)
      g5 == text_obj_angle_set_val(g4, <<"3", "0">>)
      g6 == text_obj_radius_set_val(g5, <<"3", ".", "0">>)
      g7 == IF g6.show_rays
            THEN check_set_active([g6 EXCEPT !.show_rays = FALSE])
            ELSE g6
  IN  update_simulation(g7)

\* np.sqrt of a perfect square
sqrt(n) == CHOOSE s \in 0..n : s * s = n

\* np.degrees(np.arctan2(y, x)) for a point of one of the axes
arctan2_deg(y, x) ==
  CASE y = 0 /\ x >= 0 -> 0
    [] y = 0 /\ x < 0 -> 180
    [] x = 0 /\ y > 0 -> 90
    [] x = 0 /\ y < 0 -> -90

on_click(g, ev) ==
  IF ev.inaxes
  THEN LET r == Unit * sqrt(ev.xdata * ev.xdata + ev.ydata * ev.ydata)
           angle == (Unit * arctan2_deg(ev.ydata, ev.xdata)) % (360 * Unit)
           g1 == IF 5 * (Unit \div 10) <= r /\ r <= 45 * (Unit \div 10)
                 THEN slider_obj_radius_set_val(g, r)
                 ELSE g
       IN  update_simulation(slider_obj_angle_set_val(g1, angle))
  ELSE g

-----------------------------------------------------------------------------
(* The events of the interface *)

\* positions the user drags the three sliders to (ranges 1..270, 0..360, 0.5..4.5)
SliderThetaVals == {1 * Unit, 270 * Unit}

SliderObjAngleVals == {0}

SliderObjRadiusVals == {45 * (Unit \div 10)}

\* texts the user submits in the three boxes
ThetaTexts == {<<"9", "0">>, <<"a", "b", "c">>, <<"0">>, <<"2", "7", "1">>, <<>>}

ObjAngleTexts == {<<"-", "3", "0">>, <<"4", "x">>}

ObjRadiusTexts == {<<"0", ".", "0", "1">>, <<"x">>, <<"0">>, <<"-", "1">>}

\* button presses: two points of the plot and one outside it
ClickEvents ==
  {[inaxes |-> TRUE, xdata |-> 0, ydata |-> 2],
   [inaxes |-> TRUE, xdata |-> 0, ydata |-> -5],
   [inaxes |-> FALSE, xdata |-> 0, ydata |-> 0]}

NoFormula == [template |-> "", n |-> 0, N |-> 0]

NoText == <<>>

\* the globals when a callback starts
Globals ==
  [theta_deg |-> theta_deg, obj_angle_deg |-> obj_angle_deg,
   obj_radius |-> obj_radius, show_rays |-> show_rays,
   check_status |-> check_status, printed |-> <<>>, drawn |-> <<>>]

\* the state after a callback that ended with the globals g
Handled(kind, text, g) ==
  /\ theta_deg' = g.theta_deg
  /\ obj_angle_deg' = g.obj_angle_deg
  /\ obj_radius' = g.obj_radius
  /\ show_rays' = g.show_rays
  /\ check_status' = g.check_status
  /\ printed' = g.printed
  /\ event' = [kind |-> kind, text |-> text]
  /\ IF g.drawn = <<>>
     THEN UNCHANGED <<images, image_angles, num_images, formula_str, ray_lines>>
     ELSE \E d \in Drawing(g.drawn[1][1], g.drawn[1][2], g.drawn[1][3], g.drawn[1][4]) :
            /\ images' = d.images
            /\ image_angles' = d.image_angles
            /\ num_images' = d.num_images
            /\ formula_str' = d.formula_str
            /\ ray_lines' = d.ray_lines

\* the module's top level: the initial globals, then update_simulation()
Init ==
  /\ theta_deg = 60 * Unit
  /\ obj_radius = 3 * Unit
  /\ obj_angle_deg = 30 * Unit
  /\ show_rays = FALSE
  /\ check_status = FALSE
  /\ printed = <<>>
  /\ event = [kind |-> "start", text |-> NoText]
  /\ \E d \in Drawing(60 * Unit, 30 * Unit, 3 * Unit, FALSE) :
       /\ images = d.images
       /\ image_angles = d.image_angles
       /\ num_images = d.num_images
       /\ formula_str = d.formula_str
       /\ ray_lines = d.ray_lines

SliderThetaChanged ==
  \E val \in SliderThetaVals :
    Handled("slider_theta", NoText, slider_theta_set_val(Globals, val))

SliderObjAngleChanged ==
  \E val \in SliderObjAngleVals :
    Handled("slider_obj_angle", NoText, slider_obj_angle_set_val(Globals, val))

SliderObjRadiusChanged ==
  \E val \in SliderObjRadiusVals :
    Handled("slider_obj_radius", NoText, slider_obj_radius_set_val(Globals, val))

TextThetaSubmitted ==
  \E text \in ThetaTexts : Handled("submit_angle", text, submit_angle(Globals, text))

TextObjAngleSubmitted ==
  \E text \in ObjAngleTexts :
    Handled("submit_obj_angle", text, submit_obj_angle(Globals, text))

TextObjRadiusSubmitted ==
  \E text \in ObjRadiusTexts :
    Handled("submit_obj_radius", text, submit_obj_radius(Globals, text))

CheckClicked == Handled("toggle_rays", NoText, check_set_active(Globals))

ResetClicked == Handled("reset", NoText, reset(Globals))

CanvasClicked ==
  \E ev \in ClickEvents : Handled("on_click", NoText, on_click(Globals, ev))

Next ==
  \/ SliderThetaChanged
  \/ SliderObjAngleChanged
  \/ SliderObjRadiusChanged
  \/ TextThetaSubmitted
  \/ TextObjAngleSubmitted
  \/ TextObjRadiusSubmitted
  \/ CheckClicked
  \/ ResetClicked
  \/ CanvasClicked

Spec == Init /\ [][Next]_vars

-----------------------------------------------------------------------------
(* calculate_images as a function of its three inputs *)

ThetaStep == 5

PhiStep == 15

\* 0, the slider's minimum 1, and the multiples of ThetaStep
ThetaArgs == {1 * Unit} \cup {ThetaStep * k * Unit : k \in 0..MaxThetaK}

PhiArgs == {PhiStep * k * Unit : k \in (-MaxPhiK)..MaxPhiK}

\* radii 0.01, 2.0 and 3.0
RadiusArgs == {1, 2 * Unit, 3 * Unit}

InitCalc ==
  /\ theta_deg \in ThetaArgs
  /\ obj_angle_deg \in PhiArgs
  /\ obj_radius \in RadiusArgs
  /\ show_rays = FALSE
  /\ check_status = FALSE
  /\ images = <<>>
  /\ image_angles = <<>>
  /\ num_images = 0
  /\ formula_str = NoFormula
  /\ ray_lines = <<>>
  /\ printed = <<>>
  /\ event = [kind |-> "args", text |-> NoText]

\* images, image_angles, num_images, formula_str = calculate_images()
CallCalculateImages ==
  /\ event.kind = "args"
  /\ \E res \in {calculate_images(theta_deg, obj_radius, obj_angle_deg)} :
       /\ images' = res.images
       /\ image_angles' = res.image_angles
       /\ num_images' = res.count
       /\ formula_str' = res.formula
  /\ event' = [kind |-> "calculate_images", text |-> NoText]
  /\ UNCHANGED <<theta_deg, obj_angle_deg, obj_radius, show_rays,
                 check_status, ray_lines, printed>>

NextCalc == CallCalculateImages

SpecCalc == InitCalc /\ [][NextCalc]_vars

Returned == event.kind = "calculate_images"

-----------------------------------------------------------------------------
(* Properties of calculate_images, checked under SpecCalc *)

\* the theoretical count of the formula, for theta > 0 in hundredths of a degree
TheoreticalCount(theta) ==
  IF (360 * Unit) % theta = 0 THEN ((360 * Unit) \div theta) - 1
  ELSE (360 * Unit) \div theta

\* the object's position and every position discovered by the scan, in order
ObjectPosition == Position(obj_radius, obj_angle_deg)

AllDiscovered == Enumerate(theta_deg, obj_radius, obj_angle_deg).images

AllCandidates == Candidates(theta_deg, obj_radius, obj_angle_deg)

C2_ImagesArePrefix ==
  (Returned /\ theta_deg # 0) =>
     \A disc \in {AllDiscovered} :
        LET N == TheoreticalCount(theta_deg)
            D == Len(disc)
        IN  /\ Len(images) = Min(N, D)
            /\ Len(images) <= N
            /\ \A i \in 1..Len(images) : images[i] = disc[i]

\* a call in which the scan found more than N positions and the list was cut
C2_Witness ==
  /\ Returned
  /\ theta_deg # 0
  /\ Len(AllDiscovered) > TheoreticalCount(theta_deg)
  /\ Len(images) = TheoreticalCount(theta_deg)
  /\ Len(images) > 0

\* C3: the rounded keys of the object and of the returned images are pairwise
\* distinct: the object's key is not among the images and no two images share
\* a key.
C3_KeysDistinct ==
  (Returned /\ theta_deg # 0) =>
     /\ \A i \in 1..Len(images) : PosKey(images[i]) # PosKey(ObjectPosition)
     /\ \A i, j \in 1..Len(images) :
          i # j => PosKey(images[i]) # PosKey(images[j])

\* a call with at least two images in which a sequence of reflections (twice in
\* the same mirror) leads back to the object
C3_Witness ==
  /\ Returned
  /\ theta_deg # 0
  /\ Len(images) >= 2
  /\ \E c \in {AllCandidates} :
       /\ c[3].pos_key = PosKey(ObjectPosition)
       /\ c[3].angle = Normalize(obj_angle_deg)

\* C4: with theta = 0 calculate_images returns no image, no angle, count 0 and
\* the "infinite images" formula, for every r and phi.
C4_ParallelMirrors ==
  (Returned /\ theta_deg = 0) =>
     /\ images = <<>>
     /\ image_angles = <<>>
     /\ num_images = 0
     /\ formula_str.template = "Espelhos paralelos: infinitas imagens"

C4_Witness ==
  /\ Returned
  /\ theta_deg = 0
  /\ obj_radius = 2 * Unit
  /\ obj_angle_deg = 45 * Unit
  /\ images = <<>>

\* two positions less than 0.001 apart in x and in y
Close(p, q) ==
  /\ -RoundUnit < p[1] - q[1] /\ p[1] - q[1] < RoundUnit
  /\ -RoundUnit < p[2] - q[2] /\ p[2] - q[2] < RoundUnit

\* C7 as stated: positions (the object's or candidates') that differ by less
\* than 0.001 in x and in y collapse to a single entry, so no two of the
\* object and the discovered images are that close.
C7_CloseCollapse ==
  (Returned /\ theta_deg # 0) =>
     \A kept \in {<<ObjectPosition>> \o AllDiscovered} :
        \A i, j \in 1..Len(kept) : i # j => ~Close(kept[i], kept[j])

\* C7 amended: candidates collapse exactly when their rounded keys
\* (round(x, 3), round(y, 3)) are equal: a candidate with the object's key is
\* never an image, and for any other key exactly one image is kept, the
\* candidate of the first sequence with that key (closeness below 0.001 alone
\* does not merge two candidates).
C7_EqualKeysCollapse ==
  (Returned /\ theta_deg # 0) =>
     \A disc \in {AllDiscovered}, c \in {AllCandidates} :
        \A k \in 1..Len(c) :
           LET key == c[k].pos_key
               first == CHOOSE j \in 1..k :
                          /\ c[j].pos_key = key
                          /\ \A h \in 1..(j - 1) : c[h].pos_key # key
               kept == {i \in 1..Len(disc) : PosKey(disc[i]) = key}
           IN  IF key = PosKey(ObjectPosition) THEN kept = {}
               ELSE /\ Cardinality(kept) = 1
                    /\ \A i \in kept : disc[i] = c[first].img

\* two of the object and the discovered images are less than 0.001 apart in
\* both coordinates and both kept, because their keys differ, while two
\* sequences did collapse on one key
C7_Witness ==
  /\ Returned
  /\ theta_deg # 0
  /\ \E kept \in {<<ObjectPosition>> \o AllDiscovered} :
       \E i, j \in 1..Len(kept) :
          /\ i # j
          /\ Close(kept[i], kept[j])
          /\ PosKey(kept[i]) # PosKey(kept[j])
  /\ \E c \in {AllCandidates} :
       \E h, k \in 1..Len(c) :
          /\ h # k
          /\ c[h].pos_key = c[k].pos_key
          /\ c[h].pos_key # PosKey(ObjectPosition)

\* C9: the returned angle sequence is as long as the returned image sequence
\* and its i-th entry is the angle of the i-th returned image, also when the
\* image list is cut to the theoretical count.
C9_AnglesMatchImages ==
  (Returned /\ theta_deg # 0) =>
     /\ Len(image_angles) = Len(images)
     /\ \A i \in 1..Len(images) : images[i] = Position(obj_radius, image_angles[i])

-----------------------------------------------------------------------------
(* Properties of the interface, checked under Spec *)

Submits == {"submit_angle", "submit_obj_angle", "submit_obj_radius"}

\* a submission the callbacks must reject: not a number, theta outside
\* [1, 270], or a radius that is not positive
InvalidSubmission(e) ==
  /\ e.kind \in Submits
  /\ \/ ~float(e.text).ok
     \/ e.kind = "submit_angle"
        /\ (float(e.text).val < 1 * Unit \/ float(e.text).val > 270 * Unit)
     \/ e.kind = "submit_obj_radius" /\ float(e.text).val <= 0

\* C5: an invalid submission in any of the three boxes prints a diagnostic
\* message and leaves theta_deg, obj_angle_deg, obj_radius and show_rays (and
\* the figure) unchanged.
C5_InvalidRejected ==
  [][InvalidSubmission(event') =>
       /\ printed' # <<>>
       /\ UNCHANGED <<theta_deg, obj_angle_deg, obj_radius, show_rays,
                      images, image_angles, num_images, formula_str, ray_lines>>]_vars

\* C6: calculate_ray_paths returns no path when show_rays is off, whatever the
\* images; when it is on it returns min(3, len(images)) paths, the i-th being
\* the two points object, images[i].
C6_RayPaths ==
  LET obj == ObjectPosition
      paths == calculate_ray_paths(show_rays, obj[1], obj[2], images, image_angles)
  IN  /\ ~show_rays => paths = <<>>
      /\ show_rays =>
           /\ Len(paths) = Min(3, Len(images))
           /\ \A i \in 1..Len(paths) :
                /\ Len(paths[i]) = 2
                /\ paths[i][1] = obj
                /\ paths[i][2] = images[i]
      /\ ray_lines = IF show_rays THEN RayLines(paths) ELSE <<>>

\* rays are shown for at least three images: three lines and three arrows
C6_Witness ==
  /\ show_rays
  /\ Len(images) >= 3
  /\ Len(ray_lines) = 6
  /\ ray_lines[5].path = <<ObjectPosition, images[3]>>

\* C8: after reset the parameters are the defaults, show_rays is False and the
\* check box is unchecked.
C8_ResetRestoresDefaults ==
  event.kind = "reset" =>
     /\ theta_deg = 60 * Unit
     /\ obj_angle_deg = 30 * Unit
     /\ obj_radius = 3 * Unit
     /\ show_rays = FALSE
     /\ check_status = FALSE

\* C10: theta_deg stays within [1, 270] whatever the events, so the figure is
\* never the one of the parallel mirrors.
C10_ThetaInRange ==
  /\ 1 * Unit <= theta_deg /\ theta_deg <= 270 * Unit
  /\ formula_str.template # "Espelhos paralelos: infinitas imagens"

\* theta texts outside the range were submitted and a boundary value is held
C10_Witness ==
  /\ event.kind = "submit_angle"
  /\ float(event.text).ok
  /\ float(event.text).val = 0
  /\ theta_deg = 1 * Unit

====
